---- MODULE Spec2Model ----
(***************************************************************************)
(* Model of src/main.py: the fallback-aware data access layer of a small   *)
(* FastAPI backend.  Four business handlers (get_categories, list_products,*)
(* signup, login) run either against a document store (collections         *)
(* "category", "product", "user") or, when `from database import ...`      *)
(* raises, against static demo data.                                       *)
(*                                                                         *)
(* Each store operation (find, find_one, insert_one) is one atomic step;   *)
(* a handler that performs several store operations is several steps, so   *)
(* that requests served concurrently interleave between store operations.  *)
(* Timestamps (created_at, updated_at) and is_active are written but never *)
(* read by any handler and are left out of the stored records.             *)
(***************************************************************************)
EXTENDS Integers, Sequences, FiniteSets, TLC

VARIABLES
    storeReachable, \* TRUE iff `from database import db` succeeds
    category,       \* db["category"], in insertion (natural) order
    product,        \* db["product"], in insertion (natural) order
    user,           \* db["user"], in insertion (natural) order
    pc,             \* per client: "idle" | "seeding" | "signup"
    seedIdx,        \* per client: seed records inserted so far by its loop
    payload,        \* per client: the SignUpRequest of its signup in flight
    resp,           \* the response completed by the step just taken
    budget,         \* requests the clients may still send
    faults          \* store errors raised so far

vars == <<storeReachable, category, product, user, pc, seedIdx, payload,
          resp, budget, faults>>

(***************************************************************************)
(* Bounds of the model.                                                    *)
(***************************************************************************)
MaxCalls == 2
MaxSeqCalls == 4
MaxAuthCalls == 3
MaxFaults == 1
MaxLimit == 3

Clients == {"c1", "c2"}
Solo == "c1"

DefaultLimit == 12

NoneVal == "<None>"

Names == {"Ann", "Bob"}
Emails == {"a@x.io", "b@x.io"}
Passwords == {"hunter2", "letmein"}
Categories == {NoneVal, "", "engine", "braking", "lighting"}
Limits == ((0 - MaxLimit)..MaxLimit) \cup {DefaultLimit}

\* Python's None where a document is expected
NoDoc == [none |-> TRUE]

NoResp == [op |-> "none"]
NoPayload == [name |-> NoneVal, email |-> NoneVal, password |-> NoneVal]

(***************************************************************************)
(* Pure helpers.                                                           *)
(***************************************************************************)
Min(a, b) == IF a <= b THEN a ELSE b
Max(a, b) == IF a >= b THEN a ELSE b
Abs(a) == IF a >= 0 THEN a ELSE 0 - a
Take(s, n) == SubSeq(s, 1, Min(Max(n, 0), Len(s)))

\* sha256(pw.encode()).hexdigest(), tabulated for the passwords of the model
hash_password(pw) ==
    CASE pw = "hunter2" ->
           "f52fbd32b2b3b86ff88ef6c490628285f482af15ddcb29541f94bcf526a3f6c7"
      [] pw = "letmein" ->
           "1c8bfe8f801d79745c4631d09fff36c82aa37fc4cce4fc946683d7b336b63032"
      [] pw = "" ->
           "e3b0c44298fc1c149afbf4c8996fb92427ae41e4649b934ca495991b7852b855"

\* Python truthiness of an Optional[str]: None and "" are falsy
Truthy(s) == s # NoneVal /\ s # ""

\* Python slice xs[:limit]
SliceTo(xs, limit) ==
    IF limit >= 0 THEN Take(xs, limit) ELSE Take(xs, Len(xs) + limit)

\* pymongo cursor.limit(limit): 0 is no limit, a negative limit is its
\* absolute value (single batch)
CursorLimit(xs, limit) ==
    IF limit = 0 THEN xs ELSE Take(xs, Abs(limit))

\* Faulty variant: the category filter is dropped
FilterCategory_Ignored(xs, c) == xs

\* collection.find({"category": c}) / the comprehension d["category"] == c
FilterCategory(xs, c) ==
    LET Test(d) == d.category = c IN SelectSeq(xs, Test)

\* collection.find_one({"email": e}): the first match in natural order
RECURSIVE FindFrom(_, _, _)
FindFrom(xs, e, i) ==
    IF i > Len(xs) THEN NoDoc
    ELSE IF xs[i].email = e THEN xs[i]
    ELSE FindFrom(xs, e, i + 1)
\* Faulty variant: the query names a key no document matches
find_one_wrong_key(xs, e) == NoDoc

find_one(xs, e) == FindFrom(xs, e, 1)

(***************************************************************************)
(* Static data of the handlers.                                            *)
(***************************************************************************)
\* Faulty variant: the fallback list lost its last record
StaticCategories_Short == <<
    [name |-> "Engine", slug |-> "engine", description |-> "Performance engine parts"],
    [name |-> "Braking", slug |-> "braking", description |-> "Pads, rotors, kits"],
    [name |-> "Suspension", slug |-> "suspension", description |-> "Coilovers, arms, bushings"],
    [name |-> "Electronics", slug |-> "electronics", description |-> "Sensors, ECUs, harnesses"],
    [name |-> "LED Lighting", slug |-> "lighting", description |-> "Headlights, strips, kits"] >>

StaticCategories == <<
    [name |-> "Engine", slug |-> "engine", description |-> "Performance engine parts"],
    [name |-> "Braking", slug |-> "braking", description |-> "Pads, rotors, kits"],
    [name |-> "Suspension", slug |-> "suspension", description |-> "Coilovers, arms, bushings"],
    [name |-> "Electronics", slug |-> "electronics", description |-> "Sensors, ECUs, harnesses"],
    [name |-> "LED Lighting", slug |-> "lighting", description |-> "Headlights, strips, kits"],
    [name |-> "Bodywork", slug |-> "bodywork", description |-> "Aero, trims, panels"] >>

seed == <<
    [name |-> "Engine", slug |-> "engine", description |-> "Performance engine parts", icon |-> "Cog"],
    [name |-> "Braking", slug |-> "braking", description |-> "Pads, rotors, kits", icon |-> "Disc3"],
    [name |-> "Suspension", slug |-> "suspension", description |-> "Coilovers, arms, bushings", icon |-> "Wrench"],
    [name |-> "Electronics", slug |-> "electronics", description |-> "Sensors, ECUs, harnesses", icon |-> "Cpu"],
    [name |-> "LED Lighting", slug |-> "lighting", description |-> "Headlights, strips, kits", icon |-> "Lightbulb"],
    [name |-> "Bodywork", slug |-> "bodywork", description |-> "Aero, trims, panels", icon |-> "Zap"] >>

\* prices are kept in cents
demo == <<
    [_id |-> "1", title |-> "Carbon Intake Kit", description |-> "High-flow carbon fiber intake",
     price |-> 29999, category |-> "engine", in_stock |-> TRUE, image_url |-> NoneVal],
    [_id |-> "2", title |-> "Drilled Brake Rotors", description |-> "Performance rotor pair",
     price |-> 18950, category |-> "braking", in_stock |-> TRUE, image_url |-> NoneVal] >>

\* The documents of the product collection; _id is an ObjectId
StoredProducts == <<
    [_id |-> [oid |-> "65f0a1"], title |-> "Turbo Kit", description |-> NoneVal,
     price |-> 129900, category |-> "engine", in_stock |-> TRUE, image_url |-> NoneVal],
    [_id |-> [oid |-> "65f0a2"], title |-> "Brake Pads", description |-> "Ceramic",
     price |-> 8900, category |-> "braking", in_stock |-> FALSE, image_url |-> NoneVal],
    [_id |-> [oid |-> "65f0a3"], title |-> "Cold Air Intake", description |-> NoneVal,
     price |-> 21000, category |-> "engine", in_stock |-> TRUE, image_url |-> NoneVal] >>

\* CategoryOut projection; a missing key reads as None (dict.get)
CategoryOut(c) ==
    [name |-> c.name, slug |-> c.slug, description |-> c.description,
     icon |-> IF "icon" \in DOMAIN c THEN c.icon ELSE NoneVal]

\* ProductOut projection of the demo branch: id is d.get("_id")
DemoProductOut(d) ==
    [id |-> d._id, title |-> d.title, description |-> d.description,
     price |-> d.price, category |-> d.category, in_stock |-> d.in_stock,
     image_url |-> d.image_url]

\* ProductOut projection of the store branch: id is str(ObjectId)
StoreProductOut(d) ==
    [id |-> d._id.oid, title |-> d.title, description |-> d.description,
     price |-> d.price, category |-> d.category, in_stock |-> d.in_stock,
     image_url |-> d.image_url]

\* the list comprehensions that build the response bodies
CategoriesOut(xs) == [i \in 1..Len(xs) |-> CategoryOut(xs[i])]
DemoProductsOut(xs) == [i \in 1..Len(xs) |-> DemoProductOut(xs[i])]
StoreProductsOut(xs) == [i \in 1..Len(xs) |-> StoreProductOut(xs[i])]

(***************************************************************************)
(* Initial state: the store, when reachable, starts with empty category    *)
(* and user collections and a product collection filled by other means;    *)
(* no request is in flight and the clients may send b requests.            *)
(***************************************************************************)
InitWith(b) ==
    /\ storeReachable \in BOOLEAN
    /\ category = <<>>
    /\ product = (IF storeReachable THEN StoredProducts ELSE <<>>)
    /\ user = <<>>
    /\ pc = [p \in Clients |-> "idle"]
    /\ seedIdx = [p \in Clients |-> 0]
    /\ payload = [p \in Clients |-> NoPayload]
    /\ resp = NoResp
    /\ budget = b
    /\ faults = 0

Init == InitWith(MaxCalls)

Accept(p) ==
    /\ pc[p] = "idle"
    /\ budget > 0
    /\ budget' = budget - 1

(***************************************************************************)
(* get_categories.                                                         *)
(***************************************************************************)
\* import fails: the six hardcoded records, serialised as CategoryOut
GetCategoriesDemo(p) ==
    /\ ~storeReachable
    /\ Accept(p)
    /\ resp' = [op |-> "get_categories", client |-> p, status |-> 200,
                body |-> CategoriesOut(StaticCategories)]
    /\ UNCHANGED <<storeReachable, category, product, user, pc, seedIdx,
                   payload, faults>>

\* Faulty variant: the seed loop runs whatever the collection holds
GetCategoriesFind_AlwaysSeed(p) ==
    /\ storeReachable
    /\ Accept(p)
    /\ pc' = [pc EXCEPT ![p] = "seeding"]
    /\ seedIdx' = [seedIdx EXCEPT ![p] = 0]
    /\ resp' = NoResp
    /\ UNCHANGED <<storeReachable, category, product, user, payload, faults>>

\* Faulty variant: the seed loop runs while fewer than six records are stored
GetCategoriesFind_SeedMissing(p) ==
    /\ storeReachable
    /\ Accept(p)
    /\ IF Len(category) >= Len(seed)
       THEN /\ resp' = [op |-> "get_categories", client |-> p, status |-> 200,
                        body |-> CategoriesOut(category)]
            /\ UNCHANGED <<pc, seedIdx>>
       ELSE /\ pc' = [pc EXCEPT ![p] = "seeding"]
            /\ seedIdx' = [seedIdx EXCEPT ![p] = 0]
            /\ resp' = NoResp
    /\ UNCHANGED <<storeReachable, category, product, user, payload, faults>>

\* existing = list(db["category"].find({})); a non-empty collection is
\* returned as it is, an empty one sends the handler into the seed loop
GetCategoriesFind(p) ==
    /\ storeReachable
    /\ Accept(p)
    /\ IF category # <<>>
       THEN /\ resp' = [op |-> "get_categories", client |-> p, status |-> 200,
                        body |-> CategoriesOut(category)]
            /\ UNCHANGED <<pc, seedIdx>>
       ELSE /\ pc' = [pc EXCEPT ![p] = "seeding"]
            /\ seedIdx' = [seedIdx EXCEPT ![p] = 0]
            /\ resp' = NoResp
    /\ UNCHANGED <<storeReachable, category, product, user, payload, faults>>

\* one iteration of `for s in seed: db["category"].insert_one(...)`
SeedInsert(p) ==
    /\ pc[p] = "seeding"
    /\ seedIdx[p] < Len(seed)
    /\ category' = Append(category, seed[seedIdx[p] + 1])
    /\ seedIdx' = [seedIdx EXCEPT ![p] = seedIdx[p] + 1]
    /\ resp' = NoResp
    /\ UNCHANGED <<storeReachable, product, user, pc, payload, budget, faults>>

\* insert_one raises: nothing catches it, the request ends as a server fault
SeedInsertFail(p) ==
    /\ pc[p] = "seeding"
    /\ seedIdx[p] < Len(seed)
    /\ faults < MaxFaults
    /\ faults' = faults + 1
    /\ pc' = [pc EXCEPT ![p] = "idle"]
    /\ seedIdx' = [seedIdx EXCEPT ![p] = 0]
    /\ resp' = [op |-> "get_categories", client |-> p, status |-> 500,
                body |-> <<>>]
    /\ UNCHANGED <<storeReachable, category, product, user, payload, budget>>

\* after the loop: existing = list(db["category"].find({})), then return
SeedReturn(p) ==
    /\ pc[p] = "seeding"
    /\ seedIdx[p] = Len(seed)
    /\ pc' = [pc EXCEPT ![p] = "idle"]
    /\ seedIdx' = [seedIdx EXCEPT ![p] = 0]
    /\ resp' = [op |-> "get_categories", client |-> p, status |-> 200,
                body |-> CategoriesOut(category)]
    /\ UNCHANGED <<storeReachable, category, product, user, payload, budget,
                   faults>>

(***************************************************************************)
(* list_products.                                                          *)
(***************************************************************************)
\* the body list_products returns in demo mode
DemoProducts(c, limit) ==
    LET kept == IF Truthy(c) THEN FilterCategory(demo, c) ELSE demo
    IN  DemoProductsOut(SliceTo(kept, limit))

\* the body list_products returns in store mode
StoreProducts(c, limit) ==
    LET found == IF Truthy(c) THEN FilterCategory(product, c) ELSE product
    IN  StoreProductsOut(CursorLimit(found, limit))

ListProducts(p, c, limit) ==
    /\ Accept(p)
    /\ resp' = [op |-> "list_products", client |-> p, status |-> 200,
                category |-> c, limit |-> limit,
                body |-> IF storeReachable THEN StoreProducts(c, limit)
                         ELSE DemoProducts(c, limit)]
    /\ UNCHANGED <<storeReachable, category, product, user, pc, seedIdx,
                   payload, faults>>

(***************************************************************************)
(* signup.                                                                 *)
(***************************************************************************)
\* the document signup inserts; _id is the ObjectId the driver assigns,
\* numbered here by insertion
UserDoc(n, e, pw, id) ==
    [_id |-> id, name |-> n, email |-> e, password_hash |-> hash_password(pw)]

\* Faulty variant: demo mode keeps the signed-up user
SignupDemo_Persist(p, n, e, pw) ==
    /\ ~storeReachable
    /\ Accept(p)
    /\ user' = Append(user, UserDoc(n, e, pw, Len(user) + 1))
    /\ resp' = [op |-> "signup", client |-> p, status |-> 200,
                name |-> n, email |-> e, password |-> pw,
                body |-> [ok |-> TRUE, message |-> "Signed up (demo mode)",
                          user |-> [name |-> n, email |-> e]]]
    /\ UNCHANGED <<storeReachable, category, product, pc, seedIdx,
                   payload, faults>>

SignupDemo(p, n, e, pw) ==
    /\ ~storeReachable
    /\ Accept(p)
    /\ resp' = [op |-> "signup", client |-> p, status |-> 200,
                name |-> n, email |-> e, password |-> pw,
                body |-> [ok |-> TRUE, message |-> "Signed up (demo mode)",
                          user |-> [name |-> n, email |-> e]]]
    /\ UNCHANGED <<storeReachable, category, product, user, pc, seedIdx,
                   payload, faults>>

\* Faulty variant: the duplicate is reported but inserted all the same
SignupCheck_InsertOnDup(p, n, e, pw) ==
    /\ storeReachable
    /\ Accept(p)
    /\ IF find_one(user, e) # NoDoc
       THEN /\ resp' = [op |-> "signup", client |-> p, status |-> 400,
                        name |-> n, email |-> e, password |-> pw,
                        body |-> [detail |-> "Email already registered"]]
            /\ user' = Append(user, UserDoc(n, e, pw, Len(user) + 1))
            /\ UNCHANGED <<pc, payload>>
       ELSE /\ pc' = [pc EXCEPT ![p] = "signup"]
            /\ payload' = [payload EXCEPT ![p] =
                              [name |-> n, email |-> e, password |-> pw]]
            /\ resp' = NoResp
            /\ user' = user
    /\ UNCHANGED <<storeReachable, category, product, seedIdx, faults>>

\* existing = db["user"].find_one({"email": payload.email})
SignupCheck(p, n, e, pw) ==
    /\ storeReachable
    /\ Accept(p)
    /\ IF find_one(user, e) # NoDoc
       THEN /\ resp' = [op |-> "signup", client |-> p, status |-> 400,
                        name |-> n, email |-> e, password |-> pw,
                        body |-> [detail |-> "Email already registered"]]
            /\ UNCHANGED <<pc, payload>>
       ELSE /\ pc' = [pc EXCEPT ![p] = "signup"]
            /\ payload' = [payload EXCEPT ![p] =
                              [name |-> n, email |-> e, password |-> pw]]
            /\ resp' = NoResp
    /\ UNCHANGED <<storeReachable, category, product, user, seedIdx, faults>>

\* Variant with a unique index on email: the insert of a duplicate is refused
SignupInsert_Unique(p) ==
    /\ pc[p] = "signup"
    /\ IF find_one(user, payload[p].email) # NoDoc
       THEN /\ user' = user
            /\ resp' = [op |-> "signup", client |-> p, status |-> 400,
                        name |-> payload[p].name, email |-> payload[p].email,
                        password |-> payload[p].password,
                        body |-> [detail |-> "Email already registered"]]
       ELSE /\ user' = Append(user, UserDoc(payload[p].name, payload[p].email,
                                            payload[p].password, Len(user) + 1))
            /\ resp' = [op |-> "signup", client |-> p, status |-> 200,
                        name |-> payload[p].name, email |-> payload[p].email,
                        password |-> payload[p].password,
                        body |-> [ok |-> TRUE,
                                  user_id |-> ToString(Len(user) + 1)]]
    /\ pc' = [pc EXCEPT ![p] = "idle"]
    /\ payload' = [payload EXCEPT ![p] = NoPayload]
    /\ UNCHANGED <<storeReachable, category, product, seedIdx, budget, faults>>

\* res = db["user"].insert_one(doc); return {"ok": True, "user_id": ...}
SignupInsert(p) ==
    /\ pc[p] = "signup"
    /\ LET id == Len(user) + 1
           doc == UserDoc(payload[p].name, payload[p].email,
                          payload[p].password, id)
       IN  /\ user' = Append(user, doc)
           /\ resp' = [op |-> "signup", client |-> p, status |-> 200,
                       name |-> payload[p].name, email |-> payload[p].email,
                       password |-> payload[p].password,
                       body |-> [ok |-> TRUE, user_id |-> ToString(id)]]
    /\ pc' = [pc EXCEPT ![p] = "idle"]
    /\ payload' = [payload EXCEPT ![p] = NoPayload]
    /\ UNCHANGED <<storeReachable, category, product, seedIdx, budget, faults>>

(***************************************************************************)
(* login.                                                                  *)
(***************************************************************************)
LoginDemo(p, e, pw) ==
    /\ ~storeReachable
    /\ Accept(p)
    /\ resp' = [op |-> "login", client |-> p, status |-> 200,
                email |-> e, password |-> pw,
                body |-> [ok |-> TRUE, message |-> "Logged in (demo mode)",
                          email |-> e]]
    /\ UNCHANGED <<storeReachable, category, product, user, pc, seedIdx,
                   payload, faults>>

\* Faulty variant: the password hash is never compared
LoginResult_NoHashCheck(e, pw) ==
    LET u == find_one(user, e)
    IN  IF u = NoDoc
        THEN [status |-> 401, body |-> [detail |-> "Invalid credentials"]]
        ELSE [status |-> 200,
              body |-> [ok |-> TRUE, user_id |-> ToString(u._id),
                        name |-> u.name]]

\* the response of login in store mode
LoginResult(e, pw) ==
    LET u == find_one(user, e)
    IN  IF u = NoDoc
        THEN [status |-> 401, body |-> [detail |-> "Invalid credentials"]]
        ELSE IF u.password_hash # hash_password(pw)
        THEN [status |-> 401, body |-> [detail |-> "Invalid credentials"]]
        ELSE [status |-> 200,
              body |-> [ok |-> TRUE, user_id |-> ToString(u._id),
                        name |-> u.name]]

Login(p, e, pw) ==
    /\ storeReachable
    /\ Accept(p)
    /\ LET r == LoginResult(e, pw)
       IN  resp' = [op |-> "login", client |-> p, status |-> r.status,
                    email |-> e, password |-> pw, body |-> r.body]
    /\ UNCHANGED <<storeReachable, category, product, user, pc, seedIdx,
                   payload, faults>>

(***************************************************************************)
(* Specifications.                                                         *)
(***************************************************************************)
\* what one client may do next, the store answering every operation
ClientStep(p) ==
    \/ GetCategoriesDemo(p)
    \/ GetCategoriesFind(p)
    \/ SeedInsert(p)
    \/ SeedReturn(p)
    \/ \E c \in Categories, limit \in Limits : ListProducts(p, c, limit)
    \/ \E n \in Names, e \in Emails, pw \in Passwords : SignupDemo(p, n, e, pw)
    \/ \E n \in Names, e \in Emails, pw \in Passwords : SignupCheck(p, n, e, pw)
    \/ SignupInsert(p)
    \/ \E e \in Emails, pw \in Passwords : LoginDemo(p, e, pw)
    \/ \E e \in Emails, pw \in Passwords : Login(p, e, pw)

\* requests of all clients interleave between store operations, and a seed
\* insert may raise
Next ==
    \/ \E p \in Clients : ClientStep(p)
    \/ \E p \in Clients : SeedInsertFail(p)

Spec == Init /\ [][Next]_vars

\* one client issuing its requests one after the other
SeqNext ==
    \/ ClientStep(Solo)
    \/ SeedInsertFail(Solo)

SeqSpec == InitWith(MaxSeqCalls) /\ [][SeqNext]_vars

\* concurrent clients sending signup and login requests only
AuthNext ==
    \E p \in Clients :
        \/ \E n \in Names, e \in Emails, pw \in Passwords : SignupDemo(p, n, e, pw)
        \/ \E n \in Names, e \in Emails, pw \in Passwords : SignupCheck(p, n, e, pw)
        \/ SignupInsert(p)
        \/ \E e \in Emails, pw \in Passwords : LoginDemo(p, e, pw)
        \/ \E e \in Emails, pw \in Passwords : Login(p, e, pw)

AuthSpec == InitWith(MaxAuthCalls) /\ [][AuthNext]_vars

(***************************************************************************)
(* Vocabulary of the properties.                                           *)
(***************************************************************************)
Stored(e) == {i \in DOMAIN user : user[i].email = e}
CategoryCount(xs, c) == Cardinality({i \in DOMAIN xs : xs[i].category = c})
Matching(xs, c) == IF c = NoneVal \/ c = "" THEN Len(xs) ELSE CategoryCount(xs, c)
SeedOut == [i \in 1..6 |-> [name |-> seed[i].name, slug |-> seed[i].slug,
                            description |-> seed[i].description,
                            icon |-> seed[i].icon]]
FixedNames == <<"Engine", "Braking", "Suspension", "Electronics",
                "LED Lighting", "Bodywork">>
FixedSlugs == <<"engine", "braking", "suspension", "electronics",
                "lighting", "bodywork">>
SignupDone == resp.op = "signup"
SignupDoneNext == resp'.op = "signup"

(***************************************************************************)
(* C1.  Store mode, one client sending its requests one after the other:   *)
(* a signup with an email that has no user record succeeds and inserts     *)
(* exactly one record for it, carrying the request's name and the hash of  *)
(* its password; a signup with an email that has a record fails with 400   *)
(* "Email already registered" and inserts nothing, whatever its name and   *)
(* password.  Hence no email ever has two records.                         *)
(***************************************************************************)
C1_SignupStep ==
    (storeReachable /\ SignupDoneNext) =>
        IF Stored(resp'.email) # {}
        THEN /\ resp'.status = 400
             /\ resp'.body = [detail |-> "Email already registered"]
             /\ user' = user
        ELSE /\ resp'.status = 200
             /\ Len(user') = Len(user) + 1
             /\ SubSeq(user', 1, Len(user)) = user
             /\ user'[Len(user')].name = resp'.name
             /\ user'[Len(user')].email = resp'.email
             /\ user'[Len(user')].password_hash = hash_password(resp'.password)

C1_SequentialSignup ==
    /\ [](\A e \in Emails : Cardinality(Stored(e)) <= 1)
    /\ [][C1_SignupStep]_vars

C1_Witness ==
    /\ storeReachable
    /\ SignupDone
    /\ resp.status = 400
    /\ Len(user) = 1
    /\ user[1].email = resp.email
    /\ user[1].name # resp.name
    /\ user[1].password_hash # hash_password(resp.password)

(***************************************************************************)
(* C2 as stated.  Store mode, any interleaving of signups and logins: a    *)
(* login with email E and password P succeeds and returns the name of      *)
(* every successful signup (name, E, P), and fails with 401 when no record *)
(* of E carries the hash of P.                                             *)
(***************************************************************************)
C2_LoginMatchesEverySignup ==
    (storeReachable /\ resp.op = "login") =>
        LET hits == {i \in Stored(resp.email) :
                        user[i].password_hash = hash_password(resp.password)}
        IN  IF hits = {}
            THEN resp.status = 401
            ELSE /\ resp.status = 200
                 /\ \A i \in hits : resp.body.name = user[i].name

(***************************************************************************)
(* C2 amended.  Store mode, any interleaving: login decides on the FIRST   *)
(* record stored for the email.  With no record for E it fails with 401    *)
(* "Invalid credentials"; with records for E it succeeds iff the hash of   *)
(* P equals the hash of the first record stored for E, and then returns    *)
(* that record's name and id; otherwise it fails with 401.  When E has a   *)
(* single record (no two signups for E overlapped) this is the name and    *)
(* password of the one successful signup for E.  Login changes no record.  *)
(***************************************************************************)
C2_LoginState ==
    (storeReachable /\ resp.op = "login") =>
        IF Stored(resp.email) = {}
        THEN /\ resp.status = 401
             /\ resp.body = [detail |-> "Invalid credentials"]
        ELSE LET first == CHOOSE i \in Stored(resp.email) :
                              \A j \in Stored(resp.email) : i <= j
             IN  IF user[first].password_hash = hash_password(resp.password)
                 THEN /\ resp.status = 200
                      /\ resp.body.name = user[first].name
                      /\ resp.body.user_id = ToString(user[first]._id)
                 ELSE /\ resp.status = 401
                      /\ resp.body = [detail |-> "Invalid credentials"]

C2_LoginMatchesFirstRecord ==
    /\ []C2_LoginState
    /\ [][(storeReachable /\ resp'.op = "login") => user' = user]_vars

C2_Witness ==
    /\ storeReachable
    /\ resp.op = "login"
    /\ resp.status = 200
    /\ Len(user) = 2
    /\ user[1].email = resp.email
    /\ user[2].email = resp.email
    /\ user[2].name # user[1].name
    /\ resp.body.name = user[1].name

(***************************************************************************)
(* C3 as stated.  Both modes, every category (the empty string included)   *)
(* and every integer limit: when a category is given every returned record *)
(* has that category, and the number of returned records exceeds neither   *)
(* limit nor the number of matching records.                               *)
(***************************************************************************)
C3_LimitAlwaysCaps ==
    (resp.op = "list_products") =>
        LET all == IF storeReachable THEN product ELSE demo
            matching == IF resp.category = NoneVal THEN Len(all)
                        ELSE CategoryCount(all, resp.category)
        IN  /\ resp.category # NoneVal =>
                   \A i \in DOMAIN resp.body :
                       resp.body[i].category = resp.category
            /\ Len(resp.body) <= resp.limit
            /\ Len(resp.body) <= matching

(***************************************************************************)
(* C3 amended.  Both modes: when a NON-EMPTY category is given every       *)
(* returned record has that category; an empty string, like an absent      *)
(* category, filters nothing.  The number of returned records never        *)
(* exceeds the number of matching records, and never exceeds limit when    *)
(* limit > 0 (it is the smaller of the two).  For limit = 0 demo mode      *)
(* returns nothing and store mode returns every matching record (0 means   *)
(* no limit); for limit = -n demo mode drops the last n matching records   *)
(* and store mode returns the first n.                                     *)
(***************************************************************************)
C3_LimitTruncates ==
    (resp.op = "list_products") =>
        LET all == IF storeReachable THEN product ELSE demo
            c == resp.category
            matching == Matching(all, c)
            n == Len(resp.body)
        IN  /\ (c # NoneVal /\ c # "") =>
                   \A i \in DOMAIN resp.body : resp.body[i].category = c
            /\ n <= matching
            /\ resp.limit > 0 => n = Min(resp.limit, matching)
            /\ (resp.limit = 0 /\ ~storeReachable) => n = 0
            /\ (resp.limit = 0 /\ storeReachable) => n = matching
            /\ (resp.limit < 0 /\ ~storeReachable) =>
                   n = Max(matching + resp.limit, 0)
            /\ (resp.limit < 0 /\ storeReachable) =>
                   n = Min(0 - resp.limit, matching)

C3_Witness ==
    /\ storeReachable
    /\ resp.op = "list_products"
    /\ resp.category = "engine"
    /\ resp.limit = 1
    /\ Len(resp.body) = 1
    /\ CategoryCount(product, "engine") = 2

(***************************************************************************)
(* C4.  Store mode, one client, category collection initially empty, no    *)
(* store error so far: every get_categories call that returns, returns     *)
(* exactly the 6 seed records (name, slug, description, icon) in seed      *)
(* order, and the collection then holds exactly those 6; the call that     *)
(* finds the collection empty inserts them one by one, and once the 6 are  *)
(* stored no call inserts anything.                                        *)
(***************************************************************************)
C4_SeededState ==
    (storeReachable /\ faults = 0) =>
        /\ Len(category) <= 6
        /\ \A i \in DOMAIN category : category[i] = seed[i]
        /\ (resp.op = "get_categories") =>
               /\ resp.status = 200
               /\ resp.body = SeedOut
               /\ Len(category) = 6

C4_SeedOnce ==
    /\ []C4_SeededState
    /\ [][(storeReachable /\ faults' = 0 /\ Len(category) = 6)
             => category' = category]_vars

C4_Witness ==
    /\ storeReachable
    /\ faults = 0
    /\ resp.op = "get_categories"
    /\ resp.body = SeedOut
    /\ Len(category) = 6
    /\ budget = 0
    /\ user = <<>>

(***************************************************************************)
(* C5.  No store configured: every get_categories call returns the same 6  *)
(* fixed categories, Engine, Braking, Suspension, Electronics, LED         *)
(* Lighting, Bodywork, in this order (without icon), however many calls    *)
(* came before, and no step changes any collection or leaves a request in  *)
(* flight.                                                                 *)
(***************************************************************************)
C5_DemoState ==
    (~storeReachable /\ resp.op = "get_categories") =>
        /\ resp.status = 200
        /\ Len(resp.body) = 6
        /\ \A i \in 1..6 :
               /\ resp.body[i].name = FixedNames[i]
               /\ resp.body[i].slug = FixedSlugs[i]
               /\ resp.body[i].description = seed[i].description
               /\ resp.body[i].icon = NoneVal

C5_StaticCategories ==
    /\ []C5_DemoState
    /\ [][~storeReachable =>
             UNCHANGED <<storeReachable, category, product, user, pc,
                         seedIdx, payload, faults>>]_vars

C5_Witness ==
    /\ ~storeReachable
    /\ resp.op = "get_categories"
    /\ budget = 0

(***************************************************************************)
(* C6.  Store mode, concurrent clients: a signup that passed its existence *)
(* check always inserts its record and answers 200, also when a record     *)
(* with the same email has been inserted since the check; nothing (lock,   *)
(* transaction, unique constraint) stands between the check and the        *)
(* insert.  A state with two user records for one email, both signups      *)
(* having succeeded, is therefore reachable (C6_Witness).                  *)
(***************************************************************************)
C6_InsertStep ==
    \A p \in Clients :
        (pc[p] = "signup" /\ pc'[p] = "idle") =>
            /\ Len(user') = Len(user) + 1
            /\ SubSeq(user', 1, Len(user)) = user
            /\ user'[Len(user')].email = payload[p].email
            /\ user'[Len(user')].name = payload[p].name
            /\ resp'.op = "signup"
            /\ resp'.status = 200

C6_UncheckedInsert == [][C6_InsertStep]_vars

C6_Witness ==
    /\ storeReachable
    /\ Len(user) = 2
    /\ user[1].email = user[2].email
    /\ resp.op = "signup"
    /\ resp.status = 200
    /\ resp.email = user[1].email

(***************************************************************************)
(* C7.  Demo mode: every signup and every login answers 200 with the demo  *)
(* acknowledgement built from its own arguments alone, whatever calls came *)
(* before, and nothing is ever persisted or left in flight.                *)
(***************************************************************************)
C7_DemoAccepts ==
    ~storeReachable =>
        /\ user = <<>>
        /\ category = <<>>
        /\ product = <<>>
        /\ \A p \in Clients : pc[p] = "idle" /\ payload[p] = NoPayload
        /\ resp.op = "signup" =>
               /\ resp.status = 200
               /\ resp.body = [ok |-> TRUE, message |-> "Signed up (demo mode)",
                               user |-> [name |-> resp.name,
                                         email |-> resp.email]]
        /\ resp.op = "login" =>
               /\ resp.status = 200
               /\ resp.body = [ok |-> TRUE, message |-> "Logged in (demo mode)",
                               email |-> resp.email]

C7_Witness ==
    /\ ~storeReachable
    /\ resp.op = "login"
    /\ resp.status = 200
    /\ budget = 0

(***************************************************************************)
(* C8.  Store mode, every step of every interleaving: the product          *)
(* collection never changes; the user and category collections only grow   *)
(* at their end, records already stored staying as they are; a user record *)
(* is added only by the step that answers a signup with 200 and a category *)
(* record only by a seed loop; a step that answers a login or a            *)
(* list_products, or answers 400 or 401, changes no collection.            *)
(***************************************************************************)
C8_Step ==
    storeReachable =>
        /\ product' = product
        /\ \/ user' = user
           \/ /\ resp'.op = "signup"
              /\ resp'.status = 200
              /\ Len(user') = Len(user) + 1
              /\ SubSeq(user', 1, Len(user)) = user
        /\ \/ category' = category
           \/ /\ resp' = NoResp
              /\ \E p \in Clients : pc[p] = "seeding"
              /\ Len(category') = Len(category) + 1
              /\ SubSeq(category', 1, Len(category)) = category
              /\ \E i \in 1..6 : category'[Len(category')] = seed[i]
        /\ (resp'.op \in {"login", "list_products"}) =>
               (user' = user /\ category' = category)
        /\ (resp'.op # "none" /\ resp'.status \in {400, 401}) =>
               (user' = user /\ category' = category)

C8_InsertOnly == [][C8_Step]_vars

C8_Witness ==
    /\ storeReachable
    /\ resp.op = "login"
    /\ resp.status = 401
    /\ Len(user) = 1
    /\ user[1].email = resp.email

(***************************************************************************)
(* C9.  Store mode from an empty category collection, concurrent           *)
(* get_categories calls included: the collection holds at most 6 records   *)
(* and no two of them share a slug.                                        *)
(***************************************************************************)
C9_SeededAtMostOnce ==
    storeReachable =>
        /\ Len(category) <= 6
        /\ \A i, j \in DOMAIN category :
               category[i].slug = category[j].slug => i = j

(***************************************************************************)
(* C10.  Store mode, one client: when a seed insert raises after k of the  *)
(* 6 records were inserted, the request ends as a server fault and the k   *)
(* records stay; with 0 < k < 6 the collection is non-empty, so no later   *)
(* get_categories call enters the seed loop or inserts anything, and each  *)
(* returns exactly the records stored, the k of them.                      *)
(***************************************************************************)
C10_PartialSeed ==
    /\ storeReachable
    /\ faults >= 1
    /\ Len(category) > 0
    /\ Len(category) < 6
    /\ pc[Solo] # "seeding"

C10_State ==
    (storeReachable /\ resp.op = "get_categories" /\ resp.status = 200) =>
        /\ Len(resp.body) = Len(category)
        /\ \A i \in DOMAIN category :
               /\ resp.body[i].name = category[i].name
               /\ resp.body[i].slug = category[i].slug
               /\ resp.body[i].description = category[i].description
               /\ resp.body[i].icon = category[i].icon

C10_Step ==
    /\ (resp'.op = "get_categories" /\ resp'.status = 500) =>
           /\ pc[Solo] = "seeding"
           /\ pc'[Solo] = "idle"
           /\ category' = category
           /\ \A i \in DOMAIN category : category[i] = seed[i]
    /\ C10_PartialSeed =>
           /\ category' = category
           /\ pc'[Solo] # "seeding"

C10_PartialSeedStays ==
    /\ []C10_State
    /\ [][C10_Step]_vars

C10_Witness ==
    /\ storeReachable
    /\ faults = 1
    /\ resp.op = "get_categories"
    /\ resp.status = 200
    /\ Len(resp.body) > 0
    /\ Len(resp.body) < 6
    /\ Len(category) = Len(resp.body)

====
